---- MODULE Spec2Model ----
(***************************************************************************)
(* A model of twine's dependency graph (src/src/node.py): Vertex,          *)
(* Plugin / StaticDependencies and DependencyGraph (discovery of the       *)
(* node and vertex sets through the plugins, the is_acyclic elimination    *)
(* loop that guards construction, the dependencies generator, and the      *)
(* public operations called on a constructed graph), and of BaseFilter.    *)
(*                                                                         *)
(* Python sets and generators are modelled at the grain of one loop        *)
(* iteration per step.  Every place where the code iterates a set          *)
(* (list(self.nodes), "for node in self.nodes", "for vertice in            *)
(* connected", filter over self.vertices) is a nondeterministic choice of  *)
(* the next element, since set iteration order is not fixed.               *)
(***************************************************************************)
EXTENDS Integers, Sequences, FiniteSets, TLC

(***************************************************************************)
(* Bounds of the input space.                                              *)
(***************************************************************************)
\* node identifiers of the general (possibly cyclic) tables
NumNodes == 3
\* rows (emitted vertices) of a general table
MaxRows == 3
\* node identifiers of the acyclic tables (edges lead from lower to higher)
NumDagNodes == 5
\* rows of an acyclic table
MaxDagRows == 5
\* seeds handed to DependencyGraph for an acyclic table
MaxDagSeeds == 2
\* rows of a two-plugin table, both plugins together
MaxPluginRows == 3
\* frames a generator chain may hold before the interpreter gives up
\* (sys.getrecursionlimit(), scaled down to the longest chain of the tables:
\* no traversal of an acyclic table reaches it)
RecursionLimit == 5
\* the largest value an attribute or a filter holds
MaxValue == 1

Max(a, b) == IF a >= b THEN a ELSE b

\* the file extensions node names end with
Extensions == <<".py", ".js">>

\* the node identifiers the tables speak of
Node == 1 .. Max(Max(NumNodes, NumDagNodes), Len(Extensions))

\* a node identifier no table speaks of
UnknownNode == Max(Max(NumNodes, NumDagNodes), Len(Extensions)) + 1

\* "no node": value of is_acyclic's loop variable before the first pop
NoNode == 0

(***************************************************************************)
(* Node names.  A node has a name whose suffix plugins match against       *)
(* (node.name.endswith).  A name is <<stem, extension>>.                   *)
(***************************************************************************)
Name(n) == <<n, Extensions[((n - 1) % Len(Extensions)) + 1]>>

EndsWith(name, suffix) == name[2] = suffix

(***************************************************************************)
(* Vertex                                                                  *)
(***************************************************************************)
\* Vertex.__init__: the three identity fields and the attribute bag
Vertex(vertex_type, from_node, to_node, attr) ==
    [vertex_type |-> vertex_type, from_node |-> from_node,
     to_node |-> to_node, attr |-> attr]

\* Vertex.__hash__: the hashed triple
VertexHash(v) == <<v.vertex_type, v.from_node, v.to_node>>

\* a variant of __eq__ that also compares the attribute bag
VertexEqWithAttributes(v, w) ==
    /\ v.vertex_type = w.vertex_type
    /\ v.from_node = w.from_node
    /\ v.to_node = w.to_node
    /\ v.attr = w.attr

\* Vertex.__eq__
VertexEq(v, w) ==
    /\ v.vertex_type = w.vertex_type
    /\ v.from_node = w.from_node
    /\ v.to_node = w.to_node

\* set.add on a set of Vertex objects: an element equal (__eq__) to one
\* already present is dropped, the one already present stays
SetAdd(S, v) == IF \E w \in S : VertexEq(w, v) THEN S ELSE S \cup {v}

(***************************************************************************)
(* Plugin, StaticDependencies                                              *)
(***************************************************************************)
\* file_extensions is a str or a list of str
Str(s) == [is_str |-> TRUE, val |-> {s}]
StrList(S) == [is_str |-> FALSE, val |-> S]

\* a plugin: its file_extensions and the table its vertices() reads
Plugin(file_extensions, rows) ==
    [file_extensions |-> file_extensions, rows |-> rows]

\* Plugin.can_create_vertex
can_create_vertex(p, node) ==
    IF p.file_extensions = Str("*") THEN TRUE
    ELSE IF p.file_extensions.is_str
         THEN \A e \in p.file_extensions.val : EndsWith(Name(node), e)
         ELSE \E e \in p.file_extensions.val : EndsWith(Name(node), e)

\* StaticDependencies.vertices(node): the vertices emitted for node, all
\* with from_node = node (the emission order is left open)
PluginVertices(p, node) == {v \in p.rows : v.from_node = node}

(***************************************************************************)
(* BaseFilter                                                              *)
(***************************************************************************)
\* None
None == 0 - 1

\* the values attributes and filters hold, besides None
Value == 0 .. MaxValue

\* a key is a str, modelled as the sequence of its characters
SelfKey == <<"_", "s", "e", "l", "f">>
FieldNames == {<<"a">>, <<"b">>}
Suffix(op) == <<"_", "_">> \o op

\* the keys BaseFilter(**query) is built with: a field name or _self,
\* alone or followed by __ and an operator, known or not
Keys ==
    {field \o suffix :
        field \in FieldNames \cup {SelfKey},
        suffix \in {<<>>} \cup {Suffix(op) : op \in {<<"g", "t">>, <<"g", "t", "e">>,
                                                   <<"l", "t">>, <<"l", "t", "e">>,
                                                   <<"n", "e">>, <<"i", "n">>}}}

\* BaseFilter.__init__(**{key: value})
BaseFilter(key, value) == [key |-> key, value |-> value]
NoFilter == BaseFilter(<<>>, None)

\* an object: the value comparisons see (None for the object None, which
\* has no attributes of interest) and the attributes it has, some of which
\* may hold None
Objects ==
    {[val |-> None, attrs |-> <<>>]} \cup
    {[val |-> v, attrs |-> a] :
        v \in Value,
        a \in UNION {[F -> Value \cup {None}] : F \in SUBSET FieldNames}}
NoObject == [val |-> None, attrs |-> <<>>]

\* str.split(sep)[0] for the separator "__": what precedes its first
\* occurrence, the whole string when there is none
parse_key(key) ==
    LET I == {i \in 1 .. Len(key) - 1 : key[i] = "_" /\ key[i + 1] = "_"}
    IN  IF I = {} THEN key
        ELSE SubSeq(key, 1, (CHOOSE i \in I : \A j \in I : i <= j) - 1)

\* str.endswith
KeyEndsWith(key, suffix) ==
    /\ Len(key) >= Len(suffix)
    /\ SubSeq(key, Len(key) - Len(suffix) + 1, Len(key)) = suffix

\* getattr(o, name, default)
getattr(o, name, default) ==
    IF name \in DOMAIN o.attrs THEN o.attrs[name] ELSE default

\* how a comparison ends: None has no order
Bool(b) == IF b THEN "True" ELSE "False"
Ordered(a, b, holds) == IF a = None \/ b = None THEN "TypeError" ELSE Bool(holds)

\* lines 27-38: the comparison the suffix of the key selects
Compare(key, value, other) ==
    IF KeyEndsWith(key, Suffix(<<"g", "t">>)) THEN Ordered(value, other, value > other)
    ELSE IF KeyEndsWith(key, Suffix(<<"g", "t", "e">>)) THEN Ordered(value, other, value >= other)
    ELSE IF KeyEndsWith(key, Suffix(<<"l", "t">>)) THEN Ordered(value, other, value < other)
    ELSE IF KeyEndsWith(key, Suffix(<<"l", "t", "e">>)) THEN Ordered(value, other, value <= other)
    ELSE IF KeyEndsWith(key, Suffix(<<"n", "e">>)) THEN Bool(value # other)
    ELSE Bool(value = other)

\* a variant of match without "if value is None: return False"
matchWithoutNoneTest(f, o) ==
    LET parsed_key == parse_key(f.key)
        value == IF parsed_key # SelfKey THEN getattr(o, parsed_key, None) ELSE o.val
    IN  Compare(f.key, value, f.value)

\* BaseFilter.match
match(f, o) ==
    LET parsed_key == parse_key(f.key)
        value == IF parsed_key # SelfKey THEN getattr(o, parsed_key, None) ELSE o.val
    IN  IF value = None THEN "False" ELSE Compare(f.key, value, f.value)

(***************************************************************************)
(* Inputs: the seeds and the plugin list handed to DependencyGraph.        *)
(***************************************************************************)
\* the subsets of U with at most k elements
RECURSIVE SubsetsUpTo(_, _)
SubsetsUpTo(U, k) ==
    IF k = 0 THEN {{}}
    ELSE LET P == SubsetsUpTo(U, k - 1)
         IN  P \cup {T \cup {x} : T \in P, x \in U}

\* the nodes reachable from S (S included) along the rows E
RECURSIVE Closure(_, _)
Closure(S, E) ==
    LET T == S \cup {v.to_node : v \in {e \in E : e.from_node \in S}}
    IN  IF T = S THEN S ELSE Closure(T, E)

\* a table holds no row that discovery from the seeds never reads
Live(sd, rows) ==
    LET read == Closure(sd, rows) IN \A v \in rows : v.from_node \in read

\* one StaticDependencies plugin over any table of the general nodes; the
\* plugin applies to every node whatever its name, so the nodes are
\* interchangeable and the seeds are taken to be the first ones
GeneralInputs ==
    LET U == {Vertex("static", f, t, "a") : f \in 1 .. NumNodes, t \in 1 .. NumNodes}
    IN  {[seeds |-> sd, plugins |-> <<Plugin(Str("*"), rows)>>] :
            sd \in {1 .. k : k \in 0 .. NumNodes}, rows \in SubsetsUpTo(U, MaxRows)}

\* one StaticDependencies plugin over an acyclic table of the nodes 1 .. N
DagInputs(N) ==
    LET U == {Vertex("static", f, t, "a") : f \in 1 .. N, t \in 1 .. N}
        F == {v \in U : v.from_node < v.to_node}
    IN  {[seeds |-> sd, plugins |-> <<Plugin(Str("*"), rows)>>] :
            sd \in SubsetsUpTo(1 .. N, MaxDagSeeds) \ {{}},
            rows \in SubsetsUpTo(F, MaxDagRows)}

\* two plugins over one node per file extension: a catch-all plugin whose
\* rows differ in attributes, and one bound to file extensions whose rows
\* differ in vertex type
PluginInputs ==
    LET N  == 1 .. Len(Extensions)
        U1 == {Vertex("static", f, t, a) : f \in N, t \in N, a \in {"a", "b"}}
        U2 == {Vertex(vt, f, t, "a") : f \in N, t \in N, vt \in {"static", "import"}}
        T  == {<<r1, r2>> \in SubsetsUpTo(U1, MaxPluginRows) \X SubsetsUpTo(U2, MaxPluginRows) :
                 Cardinality(r1) + Cardinality(r2) <= MaxPluginRows}
        FE == {Str(Extensions[1]), StrList({Extensions[i] : i \in DOMAIN Extensions})}
    IN  {[seeds |-> sd, plugins |-> <<Plugin(Str("*"), t[1]), Plugin(fe, t[2])>>] :
            sd \in (SUBSET N) \ {{}}, t \in T, fe \in FE}

\* all rows of a plugin list
AllRows(ps) == UNION {ps[i].rows : i \in DOMAIN ps}

Inputs ==
    {in \in GeneralInputs : Live(in.seeds, AllRows(in.plugins))} \cup PluginInputs

\* the acyclic tables, from one or several seeds
AcyclicInputs(N) == {in \in DagInputs(N) : Live(in.seeds, AllRows(in.plugins))}

(***************************************************************************)
(* State                                                                   *)
(***************************************************************************)
VARIABLES
    seeds,              \* the nodes argument of DependencyGraph.__init__
    plugins,            \* self.plugins
    pc,                 \* where the caller / constructor stands
    nodes,              \* self.nodes
    vertices,           \* self.vertices (while discovering: the set being filled)
    gen_nodes,          \* generate_vertices: its local list "nodes"
    build,              \* the chain of active build_vertices generators
    acy_nodes,          \* is_acyclic: its local list "nodes" (a stack)
    node,               \* is_acyclic: the node popped last
    connected,          \* is_acyclic: what "for vertice in connected" still has to visit
    deleted_vertices,   \* is_acyclic: deleted_vertices
    call,               \* the dependencies(node, follow) call being drained
    deps,               \* the chain of active dependencies generators
    yielded,            \* how many times that call has yielded each node
    first,              \* the caller's record of an earlier construction
                        \* from the same seeds and plugins, if it made one
    returned,           \* what the caller's call of is_acyclic, build_vertices
                        \* or __str__ on the graph it holds has given it
    started,            \* how many build_vertices generators have been
                        \* started for each node since construction began
    steps,              \* how many steps generate_vertices and build_vertices
                        \* have taken since construction began
    base_filter,        \* a BaseFilter: its key and its value
    obj,                \* the object handed to BaseFilter.match
    matched             \* how that call of match ended

vars == <<seeds, plugins, pc, nodes, vertices, gen_nodes, build,
          acy_nodes, node, connected, deleted_vertices, call, deps, yielded,
          first, returned, started, steps, base_filter, obj, matched>>

inputVars == <<seeds, plugins>>
acyVars == <<acy_nodes, node, connected, deleted_vertices>>
graphVars == <<nodes, vertices, gen_nodes, build>>
queryVars == <<call, deps, yielded>>
filterVars == <<base_filter, obj, matched>>

\* no dependencies call has been made
NoCall == [node |-> NoNode, follow |-> FALSE]
NothingYielded == [n \in Node |-> 0]

\* the caller has called nothing but dependencies
NoReturn == [op |-> "", value |-> {}]

\* no build_vertices generator has been started
NothingStarted == [n \in Node \cup {UnknownNode} |-> 0]

\* the sequences that list the elements of S once each
Perms(S) ==
    {s \in [1 .. Cardinality(S) -> S] : \A i, j \in DOMAIN s : s[i] = s[j] => i = j}

\* drop the exhausted iterators at the head of a list of iterators
RECURSIVE DropEmpty(_)
DropEmpty(todo) ==
    IF todo = <<>> THEN <<>>
    ELSE IF Head(todo) = {} THEN DropEmpty(Tail(todo)) ELSE todo

\* what the applicable plugins, in list order, will emit for n
PluginIterators(ps, n) ==
    LET app == SelectSeq(ps, LAMBDA p : can_create_vertex(p, n))
    IN  [i \in DOMAIN app |-> PluginVertices(app[i], n)]

\* a fresh build_vertices(n) generator: per applicable plugin, in list
\* order, the vertices it has still to emit; "pending" is the vertex whose
\* "yield vertex" waits for the recursive build_vertices to finish
BuildFrame(ps, n) ==
    [node |-> n, todo |-> DropEmpty(PluginIterators(ps, n)), pending |-> <<>>]

\* DependencyGraph.__init__, lines 101-105, called with the arguments in:
\* self.nodes = set(nodes) and the generator's list(self.nodes)
Construct(in) ==
    /\ seeds = in.seeds
    /\ plugins = in.plugins
    /\ pc = "discover"
    /\ nodes = seeds
    /\ gen_nodes = seeds
    /\ vertices = {}
    /\ build = <<>>
    /\ acy_nodes = <<>>
    /\ node = NoNode
    /\ connected = {}
    /\ deleted_vertices = {}
    /\ call = NoCall
    /\ deps = <<>>
    /\ yielded = NothingYielded
    /\ first = <<>>
    /\ returned = NoReturn
    /\ started = NothingStarted
    /\ steps = 0
    /\ base_filter = NoFilter
    /\ obj = NoObject
    /\ matched = ""

Init == \E in \in Inputs : Construct(in)

\* construction from an acyclic table
InitDag == \E in \in AcyclicInputs(NumDagNodes) : Construct(in)

(***************************************************************************)
(* Discovery: generate_vertices and build_vertices                         *)
(***************************************************************************)
\* a variant of generate_vertices that reads the last node of its list
\* without removing it: "nodes[-1]" for "nodes.pop()"
GeneratePopKeep ==
    /\ pc = "discover"
    /\ build = <<>>
    /\ \E n \in gen_nodes :
        /\ gen_nodes' = gen_nodes
        /\ build' = <<BuildFrame(plugins, n)>>
        /\ started' = [started EXCEPT ![n] = @ + 1]
    /\ steps' = steps + 1
    /\ UNCHANGED <<filterVars, first, returned, inputVars, pc, nodes, vertices, acyVars, queryVars>>

\* generate_vertices: "while nodes: yield from self.build_vertices(nodes.pop())"
\* list(self.nodes) has an arbitrary order, so any node may be the one popped
GeneratePop ==
    /\ pc = "discover"
    /\ build = <<>>
    /\ \E n \in gen_nodes :
        /\ gen_nodes' = gen_nodes \ {n}
        /\ build' = <<BuildFrame(plugins, n)>>
        /\ started' = [started EXCEPT ![n] = @ + 1]
    /\ steps' = steps + 1
    /\ UNCHANGED <<filterVars, first, returned, inputVars, pc, nodes, vertices, acyVars, queryVars>>

\* the set self.vertices is filled from the generator: set.add of a yield
Yield(vs, v) == SetAdd(vs, v)

\* a build_vertices generator is being drained: by set(generate_vertices())
\* of line 108, or by a caller of graph.build_vertices(n)
Building == pc \in {"discover", "build_vertices"}

\* "yield vertex" hands v to the consumer of the generator chain: the set
\* that becomes self.vertices, or the set the caller collects
Consume(v) ==
    IF pc = "discover"
    THEN /\ vertices' = Yield(vertices, v)
         /\ returned' = returned
    ELSE /\ vertices' = vertices
         /\ returned' = [returned EXCEPT !.value = Yield(@, v)]

\* a variant of build_vertices whose "yield vertex" sits inside the "if":
\* a vertex leading to a node already in self.nodes is not yielded
BuildYieldOnlyNew ==
    /\ Building
    /\ build # <<>>
    /\ LET d == Len(build)
           f == build[d]
       IN  /\ f.todo # <<>>
           /\ \E v \in Head(f.todo) :
               /\ v.to_node \in nodes
               /\ build' = [build EXCEPT ![d].todo =
                                DropEmpty(<<Head(f.todo) \ {v}>> \o Tail(f.todo))]
    /\ steps' = steps + 1
    /\ UNCHANGED <<filterVars, first, returned, started, inputVars, pc, nodes, vertices, gen_nodes, acyVars, queryVars>>

\* build_vertices, one iteration of "for vertex in plugin.vertices(node)"
\* whose to_node is already in self.nodes: "yield vertex"
BuildYield ==
    /\ Building
    /\ build # <<>>
    /\ LET d == Len(build)
           f == build[d]
       IN  /\ f.todo # <<>>
           /\ \E v \in Head(f.todo) :
               /\ v.to_node \in nodes
               /\ Consume(v)
               /\ build' = [build EXCEPT ![d].todo =
                                DropEmpty(<<Head(f.todo) \ {v}>> \o Tail(f.todo))]
    /\ steps' = steps + 1
    /\ UNCHANGED <<filterVars, first, started, inputVars, pc, nodes, gen_nodes, acyVars, queryVars>>

\* a variant of build_vertices without the recursive "yield from": the new
\* node is added and the vertex yielded, the node is never expanded
BuildRecurseShallow ==
    /\ Building
    /\ build # <<>>
    /\ LET d == Len(build)
           f == build[d]
       IN  /\ f.todo # <<>>
           /\ \E v \in Head(f.todo) :
               /\ v.to_node \notin nodes
               /\ nodes' = nodes \cup {v.to_node}
               /\ Consume(v)
               /\ build' = [build EXCEPT ![d].todo =
                                DropEmpty(<<Head(f.todo) \ {v}>> \o Tail(f.todo))]
    /\ steps' = steps + 1
    /\ UNCHANGED <<filterVars, first, started, inputVars, pc, gen_nodes, acyVars, queryVars>>

\* a variant of build_vertices without self.nodes.add(vertex.to_node)
BuildRecurseNoAdd ==
    /\ Building
    /\ build # <<>>
    /\ LET d == Len(build)
           f == build[d]
       IN  /\ f.todo # <<>>
           /\ \E v \in Head(f.todo) :
               /\ v.to_node \notin nodes
               /\ build' = Append(
                     [build EXCEPT ![d].todo =
                          DropEmpty(<<Head(f.todo) \ {v}>> \o Tail(f.todo)),
                                   ![d].pending = <<v>>],
                     BuildFrame(plugins, v.to_node))
               /\ started' = [started EXCEPT ![v.to_node] = @ + 1]
    /\ steps' = steps + 1
    /\ UNCHANGED <<filterVars, first, returned, inputVars, pc, nodes, vertices, gen_nodes, acyVars, queryVars>>

\* a variant of build_vertices that also puts the new node on the list of
\* generate_vertices, as a worklist would, and still recurses into it
BuildRecurseAndList ==
    /\ Building
    /\ build # <<>>
    /\ LET d == Len(build)
           f == build[d]
       IN  /\ f.todo # <<>>
           /\ \E v \in Head(f.todo) :
               /\ v.to_node \notin nodes
               /\ nodes' = nodes \cup {v.to_node}
               /\ gen_nodes' = gen_nodes \cup {v.to_node}
               /\ build' = Append(
                     [build EXCEPT ![d].todo =
                          DropEmpty(<<Head(f.todo) \ {v}>> \o Tail(f.todo)),
                                   ![d].pending = <<v>>],
                     BuildFrame(plugins, v.to_node))
               /\ started' = [started EXCEPT ![v.to_node] = @ + 1]
    /\ steps' = steps + 1
    /\ UNCHANGED <<filterVars, first, returned, inputVars, pc, vertices, acyVars, queryVars>>

\* build_vertices, one iteration whose to_node is new: self.nodes.add and
\* "yield from self.build_vertices(vertex.to_node)"; the vertex itself is
\* yielded when that generator is exhausted
BuildRecurse ==
    /\ Building
    /\ build # <<>>
    /\ LET d == Len(build)
           f == build[d]
       IN  /\ f.todo # <<>>
           /\ \E v \in Head(f.todo) :
               /\ v.to_node \notin nodes
               /\ nodes' = nodes \cup {v.to_node}
               /\ build' = Append(
                     [build EXCEPT ![d].todo =
                          DropEmpty(<<Head(f.todo) \ {v}>> \o Tail(f.todo)),
                                   ![d].pending = <<v>>],
                     BuildFrame(plugins, v.to_node))
               /\ started' = [started EXCEPT ![v.to_node] = @ + 1]
    /\ steps' = steps + 1
    /\ UNCHANGED <<filterVars, first, returned, inputVars, pc, vertices, gen_nodes, acyVars, queryVars>>

\* build_vertices is exhausted: control returns to the generator that
\* started it, which yields its pending vertex (line 154), or to
\* generate_vertices, or to the caller who was draining it
BuildReturn ==
    /\ Building
    /\ build # <<>>
    /\ LET d == Len(build)
       IN  /\ build[d].todo = <<>>
           /\ IF d = 1
              THEN /\ build' = <<>>
                   /\ pc' = IF pc = "discover" THEN pc ELSE "returned"
                   /\ UNCHANGED <<vertices, returned>>
              ELSE /\ build' = [SubSeq(build, 1, d - 1) EXCEPT ![d - 1].pending = <<>>]
                   /\ pc' = pc
                   /\ Consume(build[d - 1].pending[1])
    /\ steps' = steps + 1
    /\ UNCHANGED <<filterVars, first, started, inputVars, nodes, gen_nodes, acyVars, queryVars>>

\* generate_vertices is exhausted: self.vertices = set(...) is complete
\* (line 108) and __init__ goes on to call is_acyclic
GenerateDone ==
    /\ pc = "discover"
    /\ build = <<>>
    /\ gen_nodes = {}
    /\ pc' = "check"
    /\ UNCHANGED <<filterVars, steps, first, returned, started, inputVars, graphVars, acyVars, queryVars>>

(***************************************************************************)
(* is_acyclic                                                              *)
(***************************************************************************)
\* the index of lines 121-125; a vertex endpoint outside self.nodes is a
\* KeyError there (the function is applied outside its domain)
connected_to == [n \in nodes |-> {v \in vertices : v.to_node = n}]
from_nodes == [n \in nodes |-> {v \in vertices : v.from_node = n}]

\* the elimination loop of is_acyclic is running: for __init__, or for a
\* caller of graph.is_acyclic()
Eliminating == pc \in {"eliminate", "is_acyclic_loop"}

\* lines 118-133: the nodes nothing depends on, in the order the set
\* self.nodes is iterated
IsAcyclicStart ==
    /\ pc \in {"check", "is_acyclic"}
    /\ acy_nodes' \in Perms({n \in nodes : Cardinality(connected_to[n]) = 0})
    /\ deleted_vertices' = {}
    /\ connected' = {}
    /\ node' = NoNode
    /\ pc' = IF pc = "check" THEN "eliminate" ELSE "is_acyclic_loop"
    /\ UNCHANGED <<filterVars, steps, first, returned, started, inputVars, graphVars, queryVars>>

\* lines 135-138: node = nodes.pop(); connected = from_nodes[node] - deleted_vertices
IsAcyclicPop ==
    /\ Eliminating
    /\ connected = {}
    /\ acy_nodes # <<>>
    /\ LET n == acy_nodes[Len(acy_nodes)]
       IN  /\ node' = n
           /\ connected' = from_nodes[n] \ deleted_vertices
    /\ acy_nodes' = SubSeq(acy_nodes, 1, Len(acy_nodes) - 1)
    /\ UNCHANGED <<filterVars, steps, first, returned, started, inputVars, pc, graphVars, deleted_vertices, queryVars>>

\* the test of line 141, made after vertice joined the deleted set D:
\* the popped node n has no incoming vertex left
ReadyTest(n, vertice, D) == connected_to[n] \ D = {}

\* lines 139-142: one iteration of "for vertice in connected"
IsAcyclicDelete ==
    /\ Eliminating
    /\ \E vertice \in connected :
        LET D == deleted_vertices \cup {vertice}
        IN  /\ connected' = connected \ {vertice}
            /\ deleted_vertices' = D
            /\ acy_nodes' = IF ReadyTest(node, vertice, D)
                            THEN Append(acy_nodes, vertice.to_node)
                            ELSE acy_nodes
    /\ UNCHANGED <<filterVars, steps, first, returned, started, inputVars, pc, graphVars, node, queryVars>>

\* a variant of line 143 that wants something to have been deleted:
\* "return bool(deleted_vertices) and len(vertices) == len(deleted_vertices)"
IsAcyclicResultNonEmpty ==
    /\ deleted_vertices # {}
    /\ Cardinality(vertices) = Cardinality(deleted_vertices)

\* line 143
IsAcyclicResult == Cardinality(vertices) = Cardinality(deleted_vertices)

\* a variant of __init__ that calls is_acyclic and drops its verdict
IsAcyclicReturnNoRaise ==
    /\ Eliminating
    /\ connected = {}
    /\ acy_nodes = <<>>
    /\ IF pc = "eliminate"
       THEN /\ pc' = "constructed"
            /\ returned' = returned
       ELSE /\ pc' = "returned"
            /\ returned' = [returned EXCEPT !.value = IsAcyclicResult]
    /\ UNCHANGED <<filterVars, steps, first, started, inputVars, graphVars, acyVars, queryVars>>

\* is_acyclic returns; __init__ lines 110-111: raise CircularDependencyError
\* unless the verdict is True; a caller of graph.is_acyclic() gets the verdict
IsAcyclicReturn ==
    /\ Eliminating
    /\ connected = {}
    /\ acy_nodes = <<>>
    /\ IF pc = "eliminate"
       THEN /\ pc' = IF IsAcyclicResult THEN "constructed" ELSE "CircularDependencyError"
            /\ returned' = returned
       ELSE /\ pc' = "returned"
            /\ returned' = [returned EXCEPT !.value = IsAcyclicResult]
    /\ UNCHANGED <<filterVars, steps, first, started, inputVars, graphVars, acyVars, queryVars>>

(***************************************************************************)
(* dependencies                                                            *)
(***************************************************************************)
\* a variant of the filter of line 158 that selects on to_node
DepFrameByTarget(n) == [node |-> n, iter |-> {v \in vertices : v.to_node = n}]

\* a fresh dependencies(n, follow) generator: what its filter over
\* self.vertices (line 158) has still to produce
DepFrame(n) == [node |-> n, iter |-> {v \in vertices : v.from_node = n}]

\* the caller, holding a constructed graph, calls dependencies(n, follow)
\* for a node of the graph or one unknown to it, and drains the generator
\* (a caller that constructs a second graph only compares it with the first)
DependenciesCall ==
    /\ pc \in {"constructed", "exhausted", "RecursionError"}
    /\ first = <<>>
    /\ \E n \in nodes \cup {UnknownNode}, follow \in BOOLEAN :
        /\ call' = [node |-> n, follow |-> follow]
        /\ deps' = <<DepFrame(n)>>
    /\ yielded' = NothingYielded
    /\ pc' = "dependencies"
    /\ UNCHANGED <<filterVars, steps, first, returned, started, inputVars, graphVars, acyVars>>

\* lines 159-160 with follow false: "yield vertex.to_node"
DependenciesYield ==
    /\ pc = "dependencies"
    /\ ~call.follow
    /\ LET d == Len(deps)
       IN  \E v \in deps[d].iter :
            /\ yielded' = [yielded EXCEPT ![v.to_node] = @ + 1]
            /\ deps' = [deps EXCEPT ![d].iter = @ \ {v}]
    /\ UNCHANGED <<filterVars, steps, first, returned, started, inputVars, pc, graphVars, acyVars, call>>

\* lines 159-162 with follow true: "yield vertex.to_node", then
\* "yield from self.dependencies(vertex.to_node, follow)"; a chain of
\* generators deeper than the interpreter allows ends in RecursionError
DependenciesFollow ==
    /\ pc = "dependencies"
    /\ call.follow
    /\ LET d == Len(deps)
       IN  \E v \in deps[d].iter :
            /\ yielded' = [yielded EXCEPT ![v.to_node] = @ + 1]
            /\ IF d < RecursionLimit
               THEN /\ deps' = Append([deps EXCEPT ![d].iter = @ \ {v}],
                                      DepFrame(v.to_node))
                    /\ pc' = pc
               ELSE /\ deps' = <<>>
                    /\ pc' = "RecursionError"
    /\ UNCHANGED <<filterVars, steps, first, returned, started, inputVars, graphVars, acyVars, call>>

\* a dependencies generator is exhausted: control returns to the one that
\* started it, or to the caller
DependenciesReturn ==
    /\ pc = "dependencies"
    /\ LET d == Len(deps)
       IN  /\ deps[d].iter = {}
           /\ deps' = SubSeq(deps, 1, d - 1)
           /\ pc' = IF d = 1 THEN "exhausted" ELSE pc
    /\ UNCHANGED <<filterVars, steps, first, returned, started, inputVars, graphVars, acyVars, call, yielded>>

(***************************************************************************)
(* The other public operations, called on a constructed graph.  A caller   *)
(* who has made no other call on the graph makes one of these calls and    *)
(* keeps what it returns.                                                  *)
(***************************************************************************)
\* the caller calls graph.build_vertices(n), for any node, and drains the
\* generator into a set
BuildVerticesCall ==
    /\ pc = "constructed"
    /\ first = <<>>
    /\ \E n \in Node \cup {UnknownNode} :
        /\ build' = <<BuildFrame(plugins, n)>>
        /\ started' = [started EXCEPT ![n] = @ + 1]
    /\ returned' = [op |-> "build_vertices", value |-> {}]
    /\ pc' = "build_vertices"
    /\ UNCHANGED <<filterVars, steps, first, inputVars, nodes, vertices, gen_nodes, acyVars, queryVars>>

\* the caller calls graph.is_acyclic()
IsAcyclicCall ==
    /\ pc = "constructed"
    /\ first = <<>>
    /\ returned' = [op |-> "is_acyclic", value |-> {}]
    /\ pc' = "is_acyclic"
    /\ UNCHANGED <<filterVars, steps, first, started, inputVars, graphVars, acyVars, queryVars>>

\* Vertex.__str__, lines 91-92: "(%s) --> (%s)" % (self.from_node, self.to_node)
VertexStr(v) == <<"(", v.from_node, ") --> (", v.to_node, ")">>

\* the caller calls str(graph), lines 113-114: the vertices' strings, joined
\* by newlines in the order the set self.vertices is iterated
StrCall ==
    /\ pc = "constructed"
    /\ first = <<>>
    /\ \E order \in Perms(vertices) :
        returned' = [op |-> "__str__",
                     value |-> [i \in DOMAIN order |-> VertexStr(order[i])]]
    /\ pc' = "returned"
    /\ UNCHANGED <<filterVars, steps, first, started, inputVars, graphVars, acyVars, queryVars>>

(***************************************************************************)
(* The caller constructs a second DependencyGraph from the same seeds and  *)
(* the same plugins, listed in any order, keeping what the first           *)
(* construction gave: its node and vertex sets and how it ended.           *)
(***************************************************************************)
ConstructAgain ==
    /\ pc \in {"constructed", "CircularDependencyError"}
    /\ first = <<>>
    /\ first' = <<[nodes |-> nodes, vertices |-> vertices, outcome |-> pc]>>
    /\ \E order \in Perms(DOMAIN plugins) :
        plugins' = [i \in DOMAIN plugins |-> plugins[order[i]]]
    /\ pc' = "discover"
    /\ nodes' = seeds
    /\ gen_nodes' = seeds
    /\ vertices' = {}
    /\ build' = <<>>
    /\ acy_nodes' = <<>>
    /\ node' = NoNode
    /\ connected' = {}
    /\ deleted_vertices' = {}
    /\ started' = NothingStarted
    /\ steps' = 0
    /\ UNCHANGED <<filterVars, seeds, queryVars, returned>>

Next ==
    \/ GeneratePop
    \/ BuildYield
    \/ BuildRecurse
    \/ BuildReturn
    \/ GenerateDone
    \/ IsAcyclicStart
    \/ IsAcyclicPop
    \/ IsAcyclicDelete
    \/ IsAcyclicReturn
    \/ DependenciesCall
    \/ DependenciesYield
    \/ DependenciesFollow
    \/ DependenciesReturn
    \/ BuildVerticesCall
    \/ IsAcyclicCall
    \/ StrCall
    \/ ConstructAgain

Spec == Init /\ [][Next]_vars

(***************************************************************************)
(* BaseFilter.match, called once on any filter and any object; no graph    *)
(* is constructed.                                                         *)
(***************************************************************************)
InitFilter ==
    /\ base_filter \in {BaseFilter(key, value) : key \in Keys, value \in Value \cup {None}}
    /\ obj \in Objects
    /\ matched = ""
    /\ pc = "filter"
    /\ seeds = {}
    /\ plugins = <<>>
    /\ nodes = {}
    /\ gen_nodes = {}
    /\ vertices = {}
    /\ build = <<>>
    /\ acy_nodes = <<>>
    /\ node = NoNode
    /\ connected = {}
    /\ deleted_vertices = {}
    /\ call = NoCall
    /\ deps = <<>>
    /\ yielded = NothingYielded
    /\ first = <<>>
    /\ returned = NoReturn
    /\ started = NothingStarted
    /\ steps = 0

Match ==
    /\ pc = "filter"
    /\ matched' = match(base_filter, obj)
    /\ pc' = "matched"
    /\ UNCHANGED <<base_filter, obj, first, returned, started, steps, inputVars, graphVars,
                   acyVars, queryVars>>

NextFilter == Match

SpecFilter == InitFilter /\ [][NextFilter]_vars

\* the same program, constructed from the acyclic tables
SpecDag == InitDag /\ [][Next]_vars

(***************************************************************************)
(* Graph-theoretic vocabulary of the properties                            *)
(***************************************************************************)
\* the nodes one edge of V away from a node of S
Succ(S, V) == {v.to_node : v \in {e \in V : e.from_node \in S}}

\* the nodes reachable from n by one or more edges of V
ReachPlus(n, V) == Closure(Succ({n}, V), V)

\* V holds a directed cycle (a self-loop is one)
Cyclic(V) == \E v \in V : v.from_node \in ReachPlus(v.from_node, V)

\* what the applicable plugins emit when asked about n
Emitted(n) ==
    UNION {PluginVertices(plugins[i], n) :
             i \in {j \in DOMAIN plugins : can_create_vertex(plugins[j], n)}}

\* every row an applicable plugin would emit for its from_node
ApplicableRows == UNION {Emitted(n) : n \in Node}

\* the identity triples of a set of vertices
Triples(V) == {VertexHash(v) : v \in V}

\* discovery is over: self.vertices has been assigned
DiscoveryDone == pc # "discover"

\* the moment discovery finishes, before is_acyclic is called
DiscoveryFinishes == pc = "check"

\* __init__ has returned: the caller holds a DependencyGraph
Constructed == pc \in {"constructed", "dependencies", "exhausted", "RecursionError"}

\* is_acyclic has run its elimination loop to the end
EliminationDone == pc = "eliminate" /\ acy_nodes = <<>> /\ connected = {}

(***************************************************************************)
(* C1.  Every DependencyGraph whose construction completes without raising *)
(* has an acyclic vertex set: if the discovered vertices hold a directed   *)
(* cycle, __init__ raises CircularDependencyError, whatever the pop and    *)
(* set-iteration orders of is_acyclic.                                     *)
(* Violated: a cycle whose nodes are all pushed from outside the cycle is  *)
(* eliminated completely, e.g. S -> A, A -> A.                             *)
(***************************************************************************)
C1_ConstructedIsAcyclic == Constructed => ~Cyclic(vertices)

(***************************************************************************)
(* C2.  Construction never rejects an acyclic graph: when the discovered   *)
(* vertex set has no directed cycle, is_acyclic deletes every vertex and   *)
(* __init__ does not raise CircularDependencyError.                        *)
(* Violated: X -> A, Y -> A, A -> B, B -> C from the seeds X and Y.        *)
(***************************************************************************)
C2_AcyclicIsAccepted ==
    /\ (EliminationDone /\ ~Cyclic(vertices)) => deleted_vertices = vertices
    /\ pc = "CircularDependencyError" => Cyclic(vertices)

(***************************************************************************)
(* C3.  Discovery computes the exact reachable closure: when it finishes,  *)
(* nodes is the seed set together with every node reachable from a seed    *)
(* along the rows applicable plugins emit, and nothing else; vertices is   *)
(* exactly the set of vertices (one per identity triple, each of them an   *)
(* emitted object) that applicable plugins emit for those nodes.           *)
(***************************************************************************)
C3_DiscoveryIsClosure ==
    DiscoveryFinishes =>
        /\ nodes = Closure(seeds, ApplicableRows)
        /\ vertices \subseteq UNION {Emitted(n) : n \in nodes}
        /\ Triples(vertices) = Triples(UNION {Emitted(n) : n \in nodes})

\* discovery has finished for seeds one of which is reached from another
\* seed and has vertices of its own, all of them found
C3_Witness ==
    /\ pc = "check"
    /\ \E s \in seeds, t \in seeds :
        /\ s # t
        /\ s \in ReachPlus(t, ApplicableRows)
        /\ s \notin ReachPlus(s, ApplicableRows)
        /\ \E v \in vertices : v.from_node = s /\ v.to_node \notin seeds

(***************************************************************************)
(* C4.  The node and vertex sets do not depend on the order in which       *)
(* seeds are popped, on the order of the plugins or on the order in which  *)
(* a plugin emits its vertices: a second construction from the same seeds  *)
(* and plugins ends discovery with the same nodes and with a vertex set    *)
(* equal to the first one's as a set of Vertex objects (__eq__).           *)
(***************************************************************************)
C4_OrderIndependent ==
    (first # <<>> /\ DiscoveryDone) =>
        /\ nodes = first[1].nodes
        /\ \A v \in vertices : \E w \in first[1].vertices : VertexEq(v, w)
        /\ \A w \in first[1].vertices : \E v \in vertices : VertexEq(v, w)

\* a second construction, with the plugins listed in the other order, has
\* finished discovery of a graph of several vertices
C4_Witness ==
    /\ first # <<>>
    /\ pc = "check"
    /\ Len(plugins) = 2
    /\ plugins[1].file_extensions # Str("*")
    /\ Cardinality(vertices) >= 2
    /\ vertices # first[1].vertices

(***************************************************************************)
(* C5.  Endpoint closure: after discovery (hence whenever is_acyclic       *)
(* indexes connected_to and from_nodes) the from_node and the to_node of   *)
(* every vertex in vertices are members of nodes; the plugins emit only    *)
(* vertices whose from_node is the node asked about.                       *)
(***************************************************************************)
C5_EndpointsInNodes ==
    DiscoveryDone =>
        \A v \in vertices : v.from_node \in nodes /\ v.to_node \in nodes

\* is_acyclic is indexing a graph with a vertex that led to a new node
C5_Witness ==
    /\ pc = "eliminate"
    /\ \E v \in vertices : v.to_node \notin seeds

(***************************************************************************)
(* C6.  Edge deduplication: vertices holds at most one vertex per          *)
(* (vertex_type, from_node, to_node) triple, also when several rows or     *)
(* several plugins emit the same triple, with equal or with different      *)
(* attributes; its size is the number of distinct triples emitted.         *)
(***************************************************************************)
C6_OneVertexPerTriple ==
    /\ \A v, w \in vertices : VertexEq(v, w) => v = w
    /\ DiscoveryFinishes =>
         Cardinality(vertices) =
             Cardinality(Triples(UNION {Emitted(n) : n \in nodes}))

\* discovery has finished where two rows of one plugin (different
\* attributes) and a row of another plugin share one triple
C6_Witness ==
    /\ pc = "check"
    /\ Len(plugins) = 2
    /\ \E n \in nodes :
        \E v, w \in PluginVertices(plugins[1], n), x \in PluginVertices(plugins[2], n) :
            /\ v # w
            /\ VertexEq(v, w)
            /\ VertexEq(v, x)
            /\ can_create_vertex(plugins[2], n)

\* the nodes a drained dependencies call has yielded at least once
YieldedSet == {m \in Node : yielded[m] > 0}

\* the call has ended: its generator is exhausted or has raised
CallEnded == pc \in {"exhausted", "RecursionError"}

(***************************************************************************)
(* C7.  For every constructed graph and every node n, the set of nodes     *)
(* yielded by dependencies(n, follow=True) is exactly the set of nodes     *)
(* reachable from n by one or more vertices.                               *)
(* Violated on a constructed graph that holds a cycle (see C1), where the  *)
(* call ends in RecursionError having yielded only a part: S -> A,         *)
(* A -> A, A -> B and n = S.                                               *)
(***************************************************************************)
C7_FollowYieldsReachable ==
    (CallEnded /\ call.follow) => YieldedSet = ReachPlus(call.node, vertices)

(***************************************************************************)
(* C8.  For every constructed graph and every node n, the traversal        *)
(* dependencies(n, follow=True) terminates: no node is expanded while an   *)
(* expansion of the same node is still active, and the chain of            *)
(* generators never outgrows the interpreter's limit.                      *)
(* Violated on a constructed graph that holds a cycle (see C1): S -> A,    *)
(* A -> A and n = S.                                                       *)
(***************************************************************************)
C8_FollowTerminates ==
    /\ pc # "RecursionError"
    /\ \A i, j \in DOMAIN deps : deps[i].node = deps[j].node => i = j

(***************************************************************************)
(* C9.  dependencies(n) with follow=False yields exactly the to_node of    *)
(* each vertex whose from_node is n, once per such vertex; it yields       *)
(* nothing and raises nothing when n has no outgoing vertex or is not a    *)
(* member of nodes.                                                        *)
(***************************************************************************)
C9_DirectDependencies ==
    /\ (pc = "exhausted" /\ ~call.follow) =>
          \A m \in Node :
              yielded[m] = Cardinality({v \in vertices :
                                          v.from_node = call.node /\ v.to_node = m})
    /\ (pc = "dependencies" /\ ~call.follow) =>
          \A m \in Node :
              yielded[m] <= Cardinality({v \in vertices :
                                           v.from_node = call.node /\ v.to_node = m})
    /\ pc = "RecursionError" => call.follow

\* a direct call on a node of the graph is exhausted: it yielded two nodes
\* and left out a node that is two hops away
C9_Witness ==
    /\ pc = "exhausted"
    /\ ~call.follow
    /\ call.node \in nodes
    /\ YieldedSet # {}
    /\ ReachPlus(call.node, vertices) # YieldedSet

(***************************************************************************)
(* C10.  Construction is all-or-nothing: the cycle check runs only after   *)
(* discovery has finished (generate_vertices and every build_vertices are  *)
(* exhausted, so that by C3 the sets are complete); when it                *)
(* fails __init__ raises CircularDependencyError and the caller gets no    *)
(* graph; no dependencies call ever runs on a graph whose cycle check has  *)
(* not returned True.                                                      *)
(***************************************************************************)
C10_AllOrNothing ==
    /\ pc \in {"check", "eliminate"} => (gen_nodes = {} /\ build = <<>>)
    /\ Constructed =>
          /\ acy_nodes = <<>> /\ connected = {}
          /\ IsAcyclicResult
    /\ pc = "CircularDependencyError" => ~IsAcyclicResult
    /\ ~Constructed => (call = NoCall /\ deps = <<>>)

\* the cycle check has failed and __init__ has raised
C10_Witness ==
    /\ pc = "CircularDependencyError"
    /\ first = <<>>
    /\ Cardinality(nodes) = 3
    /\ Cyclic(vertices)

\* the caller holds a DependencyGraph: __init__ has returned it
Holding ==
    \/ Constructed
    \/ pc \in {"build_vertices", "is_acyclic", "is_acyclic_loop", "returned"}

(***************************************************************************)
(* C11.  After construction no public operation (dependencies with either  *)
(* follow value, is_acyclic, build_vertices, __str__), called with any     *)
(* node argument, one unknown to the graph included, changes nodes or      *)
(* vertices: no step taken while the caller holds the graph changes them.  *)
(* Violated: build_vertices(n) runs self.nodes.add for every to_node it    *)
(* meets that is not in nodes, e.g. build_vertices(x) with a row x -> y    *)
(* that discovery from the seeds never read.                               *)
(***************************************************************************)
C11_NoMutationAfterConstruction ==
    [][(Holding /\ Holding') => (nodes' = nodes /\ vertices' = vertices)]_vars

(***************************************************************************)
(* C12.  Discovery does not use call recursion that grows with the graph:  *)
(* the number of build_vertices activations alive at one time is bounded   *)
(* by a constant that does not depend on the length of the longest chain   *)
(* of rows, as with an explicit worklist, where one activation is alive    *)
(* and the nodes still to expand wait in the list.                         *)
(* Whatever the constant, a table large enough chains more nodes than it;  *)
(* here: the activations alive stay fewer than the nodes of the longest    *)
(* chain the acyclic tables hold.                                          *)
(* Violated: build_vertices calls itself for every new to_node, so a chain *)
(* of k rows holds k + 1 activations alive at its end.                     *)
(***************************************************************************)
C12_BoundedActivations == Len(build) < NumDagNodes

\* the attribute the key of the filter names is missing on the object, or
\* holds None
AttributeMissing ==
    \E field \in FieldNames :
        /\ \/ base_filter.key = field
           \/ /\ Len(base_filter.key) > Len(field) + 2
              /\ SubSeq(base_filter.key, 1, Len(field) + 2) = field \o <<"_", "_">>
        /\ \/ field \notin DOMAIN obj.attrs
           \/ obj.attrs[field] = None

(***************************************************************************)
(* C13.  BaseFilter.match(obj) returns False and raises nothing whenever   *)
(* the attribute named by the filter key is missing on obj or resolves to  *)
(* None, for every comparison suffix (none, __gt, __gte, __lt, __lte,      *)
(* __ne, or one that is not known) and every filter value.                 *)
(***************************************************************************)
C13_MissingAttributeIsNoMatch ==
    (pc = "matched" /\ AttributeMissing) => matched = "False"

\* an ordering filter has been matched against an object that has another
\* attribute but not the one the key names
C13_Witness ==
    /\ pc = "matched"
    /\ base_filter.key = <<"a">> \o Suffix(<<"g", "t", "e">>)
    /\ base_filter.value = None
    /\ DOMAIN obj.attrs = {<<"b">>}
    /\ matched = "False"

(***************************************************************************)
(* C14.  In the elimination loop of is_acyclic a node m is pushed on the   *)
(* stack only when every vertex whose to_node is m has been removed (its   *)
(* remaining in-degree is zero); consequently vertices are removed only    *)
(* from a node all of whose incoming vertices have been removed.           *)
(* Violated: line 141 tests the incoming vertices of the node popped, not  *)
(* those of vertice.to_node, so with X -> A and Y -> A the pop of X pushes *)
(* A while Y -> A is still there.                                          *)
(***************************************************************************)
C14_PushedOnlyWhenReady ==
    Eliminating =>
        /\ \A i \in DOMAIN acy_nodes :
              connected_to[acy_nodes[i]] \ deleted_vertices = {}
        /\ node # NoNode => connected_to[node] \ deleted_vertices = {}

(***************************************************************************)
(* C15.  The verdict of is_acyclic is deterministic: for fixed nodes and   *)
(* vertices it is the same boolean for every pop order and every           *)
(* set-iteration order.  So a call of is_acyclic on a constructed graph    *)
(* returns True, as the call made by __init__ did, and two constructions   *)
(* from the same seeds and plugins both succeed or both raise.             *)
(* Violated: what line 141 pushes depends on the order in which the        *)
(* vertices of the popped node are visited (see C14), and so does the      *)
(* verdict: 1 -> 2, 1 -> 3, 2 -> 3, 3 -> 4 from the seed 1.                *)
(***************************************************************************)
C15_VerdictIsDeterministic ==
    /\ (pc = "returned" /\ returned.op = "is_acyclic") => returned.value = TRUE
    /\ (first # <<>> /\ pc \in {"constructed", "CircularDependencyError"}) =>
          pc = first[1].outcome

\* one step of discovery
DiscoveryStep ==
    \/ GeneratePop
    \/ BuildYield
    \/ BuildRecurse
    \/ BuildReturn
    \/ GenerateDone

\* the sum of the sizes of a list of sets
RECURSIVE SumCard(_)
SumCard(todo) ==
    IF todo = <<>> THEN 0 ELSE Cardinality(Head(todo)) + SumCard(Tail(todo))

\* the sum of the function f over the finite set S
RECURSIVE SetSum(_, _)
SetSum(S, f) ==
    IF S = {} THEN 0
    ELSE LET x == CHOOSE y \in S : TRUE IN f[x] + SetSum(S \ {x}, f)

\* the steps the expansion of n takes at most by itself: its start, its
\* return, and one per vertex the applicable plugins emit for it
Work(n) == 2 + SumCard(PluginIterators(plugins, n))

\* an upper bound of the discovery steps still to come: the work of the
\* nodes not expanded yet (those waiting in the list of generate_vertices
\* and those not in self.nodes), the vertices the generators alive have
\* still to handle, and the returns of those generators
Variant ==
    SetSum(gen_nodes \cup (Node \ nodes), [n \in Node |-> Work(n)])
        + SetSum(DOMAIN build, [i \in DOMAIN build |-> SumCard(build[i].todo)])
        + Len(build)

C17_ExpandedOnce ==
    /\ pc = "discover" =>
          \A n \in Node \cup {UnknownNode} :
              started[n] = IF n \in nodes \ gen_nodes THEN 1 ELSE 0
    /\ pc = "check" =>
          \A n \in Node \cup {UnknownNode} :
              started[n] = IF n \in nodes THEN 1 ELSE 0

\* discovery has finished where a vertex leads from a discovered node back
\* to a seed and two vertices lead to one discovered node
C17_Witness ==
    /\ pc = "check"
    /\ \E v \in vertices : v.to_node \in seeds /\ v.from_node \notin seeds
    /\ \E v, w \in vertices :
          /\ v.to_node = w.to_node
          /\ v.from_node # w.from_node
          /\ v.to_node \notin seeds

\* a directed cycle of V can be reached from n
CyclicFrom(n, V) == \E x \in ReachPlus(n, V) \cup {n} : x \in ReachPlus(x, V)

\* the number of distinct paths of vertices of V from n to m (one or more
\* vertices; two vertices of different type between the same nodes make
\* two paths), where no cycle can be reached from n
RECURSIVE NumPaths(_, _, _)
NumPaths(n, m, V) ==
    LET out == {v \in V : v.from_node = n}
    IN  SetSum(out, [v \in out |->
                       (IF v.to_node = m THEN 1 ELSE 0) + NumPaths(v.to_node, m, V)])

(***************************************************************************)
(* C18.  In dependencies(n, follow=True) on a constructed graph, the       *)
(* number of times a node m is yielded equals the number of distinct       *)
(* directed paths of vertices from n to m: the call ends, the paths from n *)
(* are finitely many and each of them is yielded once.                     *)
(* Violated on a constructed graph that holds a cycle (see C1), where the  *)
(* paths from n are not finitely many and the call ends in RecursionError: *)
(* S -> A, A -> A and n = S.                                               *)
(***************************************************************************)
C18_YieldsCountPaths ==
    (CallEnded /\ call.follow) =>
        /\ ~CyclicFrom(call.node, vertices)
        /\ \A m \in Node : yielded[m] = NumPaths(call.node, m, vertices)

\* no applicable plugin emits a vertex for any seed
NoEdges == \A s \in seeds : Emitted(s) = {}

(***************************************************************************)
(* C19.  A graph without edges is always accepted: construction from an    *)
(* empty seed set, or from seeds for which no producer emits a vertex,     *)
(* succeeds with vertices empty and nodes equal to the seeds, and          *)
(* is_acyclic returns True, for __init__ and for a caller.                 *)
(***************************************************************************)
C19_EdgelessIsAccepted ==
    NoEdges =>
        /\ pc # "CircularDependencyError"
        /\ pc \in {"discover", "check", "eliminate", "constructed"} =>
              (vertices = {} /\ nodes = seeds)
        /\ (Eliminating /\ acy_nodes = <<>> /\ connected = {}) => IsAcyclicResult
        /\ (pc = "returned" /\ returned.op = "is_acyclic") => returned.value = TRUE

\* a graph has been constructed from two seeds, one of which has rows in
\* the table of a plugin that does not apply to it
C19_Witness ==
    /\ pc = "constructed"
    /\ NoEdges
    /\ Cardinality(seeds) = 2
    /\ \E s \in seeds, i \in DOMAIN plugins : PluginVertices(plugins[i], s) # {}

====
